---- MODULE Spec2Model ----
(***************************************************************************)
(* A model of scripts/analyze.py: the commit classifier, the per-commit   *)
(* delta computation, the semi-annual snapshot schedule and the           *)
(* orchestration in main().                                                *)
(*                                                                         *)
(* Commit subjects are TLA+ strings; the regular expressions of            *)
(* classify_commit are modelled character by character.  A subject is one  *)
(* line of git output, so it holds no newline.                             *)
(***************************************************************************)
EXTENDS Integers, Sequences, FiniteSets, TLC

VARIABLES
    subject,        \* classify_commit: the argument
    commit_type,    \* classify_commit: the returned tag ("" before the call)
    cpc,            \* classify_commit: "call" before, "done" after
    commit,         \* the commit analyze_commit_delta is called on: what git says of it
    dpc,            \* analyze_commit_delta: the statement it is at
    changed_files,  \* analyze_commit_delta: get_changed_files' result
    parent_dir,     \* work_dir/parent: <<>> if absent, else <<its set of files>>
    commit_dir,     \* work_dir/commit: likewise
    parent_data,    \* what drupalisms.php printed for parent_dir (<<>>: not run or failed)
    commit_data,    \* what drupalisms.php printed for commit_dir
    parent_metrics, \* get_metrics(parent_dir)
    commit_metrics, \* get_metrics(commit_dir)
    delta,          \* analyze_commit_delta's result: <<>> is None, <<d>> the dict d
    php_runs,       \* the directories drupalisms.php was run on during this call
    written,        \* the paths export_changed_files wrote in this call, per directory
    mpc,            \* main: the statement it is at
    today,          \* main: datetime.now() at line 615, as year, month, day
    target,         \* main: the loop variable of the date loop
    snapshot_dates, \* main: the list of target dates
    idx,            \* main: the index i of the next target of the snapshot loop
    year_month,     \* the label of the last analyze_version call (<<>> before any)
    result,         \* what the last analyze_version call returned
    snapshots,      \* main: the list of snapshots
    head_commit,    \* main: the hash `git rev-parse HEAD` gave (<<>>: it failed)
    current_date,   \* main: the label of the HEAD snapshot
    per_module_data,\* main: the per-module list
    work_dir,       \* output/work: <<>> if absent, else <<what was exported there>>
    outcome,        \* what happened to the last target or HEAD: see OutcomeOf
    history,        \* the whole history: year, month and subject of each commit, as git prints them
    commitsPerYear, \* main: get_commits_per_year's result
    commitsMonthly, \* main: get_commits_per_month's result
    data_file,      \* data.json: <<>> if absent, else <<its content>>
    exit_code,      \* <<>> while main runs, else <<the exit status>>
    git_log,        \* what `git log --since` prints: one entry per commit, in its order
    repo,           \* what git says of each commit of git_log, by hash
    rpc,            \* analyze_recent_commits: the statement it is at
    commits,        \* analyze_recent_commits: get_recent_commits' result
    cidx,           \* analyze_recent_commits: the index of the next commit of the loop
    results,        \* analyze_recent_commits: the commits kept
    scanned         \* the calls of analyze_commit_delta so far: hash and result

classifyVars == <<subject, commit_type, cpc>>

deltaVars ==
    <<commit, dpc, changed_files, parent_dir, commit_dir, parent_data, commit_data,
      parent_metrics, commit_metrics, delta, php_runs, written>>

outputVars == <<history, commitsPerYear, commitsMonthly, data_file, exit_code>>

mainVars ==
    <<mpc, today, target, snapshot_dates, idx, year_month, result, snapshots,
      head_commit, current_date, per_module_data, work_dir, outcome, outputVars>>

recentVars == <<git_log, repo, rpc, commits, cidx, results, scanned>>

vars == <<classifyVars, deltaVars, mainVars, recentVars>>

(***************************************************************************)
(* Strings                                                                 *)
(***************************************************************************)
\* s[i-1:i] in Python: the i-th character, or "" past the end
CharAt(s, i) == IF i \in 1..Len(s) THEN SubSeq(s, i, i) ELSE ""

\* s[i-1:] in Python: the text from the i-th character on
Tail_(s, i) == IF i \in 1..Len(s) THEN SubSeq(s, i, Len(s)) ELSE ""

UpperChars == "ABCDEFGHIJKLMNOPQRSTUVWXYZ"

LowerChars == "abcdefghijklmnopqrstuvwxyz"

Digits == {"0", "1", "2", "3", "4", "5", "6", "7", "8", "9"}

\* str.strip() and the regex class \s: the whitespace a one-line subject can hold
Whitespace == {" ", "\t"}

UpperSet == {CharAt(UpperChars, i) : i \in 1..Len(UpperChars)}

\* the lower-case letter of each upper-case letter
LowerOf ==
    [c \in UpperSet |->
        CharAt(LowerChars, CHOOSE i \in 1..Len(UpperChars) : CharAt(UpperChars, i) = c)]

lower_char(c) == IF c \in UpperSet THEN LowerOf[c] ELSE c

\* str.lower(): every character in lower case, one half of s after the other
RECURSIVE lower(_)
lower(s) ==
    IF Len(s) = 0 THEN ""
    ELSE IF Len(s) = 1 THEN lower_char(s)
    ELSE lower(SubSeq(s, 1, Len(s) \div 2)) \o lower(SubSeq(s, Len(s) \div 2 + 1, Len(s)))

\* the number of leading characters of s that are whitespace
RECURSIVE LeadingSpace(_)
LeadingSpace(s) ==
    IF s # "" /\ CharAt(s, 1) \in Whitespace THEN 1 + LeadingSpace(Tail_(s, 2)) ELSE 0

RECURSIVE TrailingSpace(_)
TrailingSpace(s) ==
    IF s # "" /\ CharAt(s, Len(s)) \in Whitespace
    THEN 1 + TrailingSpace(SubSeq(s, 1, Len(s) - 1))
    ELSE 0

strip(s) ==
    IF LeadingSpace(s) = Len(s) THEN ""
    ELSE SubSeq(s, LeadingSpace(s) + 1, Len(s) - TrailingSpace(s))

startswith(s, p) == Len(p) <= Len(s) /\ SubSeq(s, 1, Len(p)) = p

\* Python's `kw in subject`
Contains(s, kw) ==
    \E i \in 1..(Len(s) - Len(kw) + 1) : SubSeq(s, i, i + Len(kw) - 1) = kw

(***************************************************************************)
(* classify_commit                                                         *)
(***************************************************************************)
\* what classify_commit returns
Tags == {"Bug", "Feature", "Maintenance", "Unknown"}

bug_types == {"fix", "bugfix", "bug", "hotfix"}

feature_types == {"feat", "feature"}

maintenance_types ==
    {"build", "chore", "ci", "docs", "style", "refactor", "perf", "test", "task", "revert"}

\* the regex tail  !?:
BangColon(r) == startswith(r, ":") \/ startswith(r, "!:")

\* the regex tail  (\([^)]+\))?!?:   matched at the start of r
ScopeBangColon(r) ==
    \/ BangColon(r)
    \/ /\ startswith(r, "(")
       /\ \E k \in 3..Len(r) :
            /\ CharAt(r, k) = ")"
            /\ \A j \in 2..(k - 1) : CharAt(r, j) # ")"
            /\ BangColon(Tail_(r, k + 1))

\* re.match(r'^(t1|t2|...)(\([^)]+\))?!?:', s) is not None
conventional_match(types, s) ==
    \E t \in types : startswith(s, t) /\ ScopeBangColon(Tail_(s, Len(t) + 1))

RECURSIVE LeadingDigits(_)
LeadingDigits(s) ==
    IF s # "" /\ CharAt(s, 1) \in Digits THEN 1 + LeadingDigits(Tail_(s, 2)) ELSE 0

NoMatch == [matched |-> FALSE, group |-> ""]

\* the text matched by  \s*(.+)  at the start of r: group 1, or no match.
\* \s* is greedy and gives a character back when .+ would otherwise be empty.
SpaceThenText(r) ==
    IF r = "" THEN NoMatch
    ELSE IF LeadingSpace(r) < Len(r)
         THEN [matched |-> TRUE, group |-> Tail_(r, LeadingSpace(r) + 1)]
         ELSE [matched |-> TRUE, group |-> CharAt(r, Len(r))]

\* the text matched by  [^:]*:\s*(.+)  at the start of r
ToColonThenText(r) ==
    IF \E k \in 1..Len(r) : CharAt(r, k) = ":"
    THEN LET k == CHOOSE k \in 1..Len(r) :
                    CharAt(r, k) = ":" /\ \A j \in 1..(k - 1) : CharAt(r, j) # ":"
         IN  SpaceThenText(Tail_(r, k + 1))
    ELSE NoMatch

\* the text matched by  #?\d+[^:]*:\s*(.+)  at the start of r
HashDigits(r) ==
    LET d == IF startswith(r, "#") THEN Tail_(r, 2) ELSE r
    IN  IF LeadingDigits(d) >= 1 THEN ToColonThenText(Tail_(d, 2)) ELSE NoMatch

\* re.match(r'^issue\s*#?\d+[^:]*:\s*(.+)', s)
issue_match(s) ==
    IF startswith(s, "issue")
    THEN HashDigits(Tail_(s, 6 + LeadingSpace(Tail_(s, 6))))
    ELSE NoMatch

feature_keywords ==
    {"add ", "added ", "adding ", "adds ",
     "new ", "implement", "introduce", "create",
     "support for", "ability to", "now supports", "now allows",
     "enhancement", "enhanced", "improved", "improvement"}

bug_keywords ==
    {"fix ", "fixed ", "fixes ", "fixing ",
     "bug ", "error", "crash", "broken", "wrong", "resolve"}

maintenance_keywords ==
    {"refactor", "cleanup", "clean up", "update ", "updates ", "upgrade",
     "docs", "documentation", "test", "style", "deprecat", "revert",
     "remove ", "removed ", "delete", "rename", "move "}

\* any(kw in subject for kw in keywords)
any_keyword(keywords, s) == \E kw \in keywords : Contains(s, kw)

\* Bug keywords checked before feature keywords
RECURSIVE classify_commit_bug_first(_)
classify_commit_bug_first(subj) ==
    LET s == lower(strip(subj))
    IN  IF conventional_match(bug_types, s) THEN "Bug"
        ELSE IF conventional_match(feature_types, s) THEN "Feature"
        ELSE IF conventional_match(maintenance_types, s) THEN "Maintenance"
        ELSE IF issue_match(s).matched
             THEN classify_commit_bug_first(strip(issue_match(s).group))
        ELSE IF startswith(s, "merge") THEN "Maintenance"
        ELSE IF any_keyword(bug_keywords, s) THEN "Bug"
        ELSE IF any_keyword(feature_keywords, s) THEN "Feature"
        ELSE IF any_keyword(maintenance_keywords, s) THEN "Maintenance"
        ELSE "Unknown"

\* The issue prefix is recognised but the whole subject, not the description,
\* goes on through the cascade
classify_commit_no_recursion(subj) ==
    LET s == lower(strip(subj))
    IN  IF conventional_match(bug_types, s) THEN "Bug"
        ELSE IF conventional_match(feature_types, s) THEN "Feature"
        ELSE IF conventional_match(maintenance_types, s) THEN "Maintenance"
        ELSE IF startswith(s, "merge") THEN "Maintenance"
        ELSE IF any_keyword(feature_keywords, s) THEN "Feature"
        ELSE IF any_keyword(bug_keywords, s) THEN "Bug"
        ELSE IF any_keyword(maintenance_keywords, s) THEN "Maintenance"
        ELSE "Unknown"

RECURSIVE classify_commit(_)
classify_commit(subj) ==
    LET s == lower(strip(subj))
    IN  IF conventional_match(bug_types, s) THEN "Bug"
        ELSE IF conventional_match(feature_types, s) THEN "Feature"
        ELSE IF conventional_match(maintenance_types, s) THEN "Maintenance"
        ELSE IF issue_match(s).matched
             THEN classify_commit(strip(issue_match(s).group))
        ELSE IF startswith(s, "merge") THEN "Maintenance"
        ELSE IF any_keyword(feature_keywords, s) THEN "Feature"
        ELSE IF any_keyword(bug_keywords, s) THEN "Bug"
        ELSE IF any_keyword(maintenance_keywords, s) THEN "Maintenance"
        ELSE "Unknown"

(***************************************************************************)
(* Subjects the classifier is applied to: every concatenation of at most   *)
(* MaxTokens fragments.                                                    *)
(***************************************************************************)
MaxTokens == 4

Tokens ==
    {"fix", "feat", "test", "(c)", "!", ":", ": ", " ", "Issue #1", "merge", "add "}

RECURSIVE Concats(_)
Concats(n) ==
    IF n = 0 THEN {""}
    ELSE {""} \cup {t \o r : t \in Tokens, r \in Concats(n - 1)}

Subjects == Concats(MaxTokens)

ClassifyIdle ==
    /\ subject = ""
    /\ commit_type = ""
    /\ cpc = "idle"

ClassifyInit ==
    /\ subject \in Subjects
    /\ commit_type = ""
    /\ cpc = "call"

\* commit_type = classify_commit(subject)
Classify ==
    /\ cpc = "call"
    /\ commit_type' = classify_commit(subject)
    /\ cpc' = "done"
    /\ UNCHANGED subject

(***************************************************************************)
(* analyze_commit_delta                                                    *)
(*                                                                         *)
(* What git and php answer is chosen step by step.  Paths are strings; a   *)
(* list of paths is modelled by its set (only its emptiness and its        *)
(* members are read).  The Analyzer reports the anti-pattern density in    *)
(* halves (density2 = 2 * density), so that every value is exact.          *)
(***************************************************************************)
None == <<>>

Some(x) == <<x>>

endswith(s, suf) ==
    Len(suf) <= Len(s) /\ SubSeq(s, Len(s) - Len(suf) + 1, Len(s)) = suf

php_extensions == {".php", ".module", ".inc", ".install", ".theme", ".profile", ".engine"}

\* the paths `git diff-tree` can print for a commit
Paths == {"a.php", "b.module", "README.txt"}

\* get_changed_files, given git's exit code and the paths it printed
get_changed_files(code, lines) ==
    IF code # 0 THEN {}
    ELSE {line \in lines : \E ext \in php_extensions : endswith(line, ext)}

\* export_changed_files into an output_dir that is `dir` before the call;
\* `present` are the paths that exist in the exported revision
export_changed_files(files, present, dir) ==
    IF files = {} THEN dir
    ELSE Some((IF dir = None THEN {} ELSE dir[1]) \cup (files \cap present))

\* the directory is left as it is
rmtree_keeps(dir) == dir

\* shutil.rmtree(dir) if dir.exists()
rmtree(dir) == None

\* any(directory.rglob("*.php"))
has_php(dir) == dir # None /\ \E f \in dir[1] : endswith(f, ".php")

ZeroMetrics == [loc |-> 0, ccnSum |-> 0, miDebtSum |-> 0, antipatterns |-> 0]

ZeroDelta == [locDelta |-> 0, ccnDelta |-> 0, miDelta |-> 0, antipatternsDelta |-> 0]

\* int(density * loc / 1000) if loc > 0 else 0, with density = density2 / 2
antipatterns_count(density2, loc) ==
    IF loc > 0 THEN (density2 * loc) \div 2000 ELSE 0

\* get_metrics(directory), given what the php run gives (<<>>: it failed, timed
\* out or printed no JSON)
get_metrics(dir, data) ==
    IF ~has_php(dir) THEN ZeroMetrics
    ELSE IF data = None THEN ZeroMetrics
    ELSE [loc          |-> data[1].loc,
          ccnSum       |-> data[1].ccnSum,
          miDebtSum    |-> data[1].miDebtSum,
          antipatterns |-> antipatterns_count(data[1].density2, data[1].loc)]

\* miDelta computed like the other three, child - parent
deltas_mi_not_inverted(parent_m, commit_m) ==
    [locDelta          |-> commit_m.loc - parent_m.loc,
     ccnDelta          |-> commit_m.ccnSum - parent_m.ccnSum,
     miDelta           |-> commit_m.miDebtSum - parent_m.miDebtSum,
     antipatternsDelta |-> commit_m.antipatterns - parent_m.antipatterns]

\* the dict analyze_commit_delta returns from the two metric sets
deltas(parent_m, commit_m) ==
    [locDelta          |-> commit_m.loc - parent_m.loc,
     ccnDelta          |-> commit_m.ccnSum - parent_m.ccnSum,
     miDelta           |-> parent_m.miDebtSum - commit_m.miDebtSum,
     antipatternsDelta |-> commit_m.antipatterns - parent_m.antipatterns]

MaxLoc500 == 4

MaxSum == 2

\* what a successful php run can print
AnalyzerData ==
    [loc : {500 * k : k \in 0..MaxLoc500} \cup {1900},
     density2 : {0, 2, 3, 10},
     ccnSum : 0..MaxSum,
     miDebtSum : {0, MaxSum}]

PhpOutcomes == {None} \cup {Some(d) : d \in AnalyzerData}

\* What git says of a commit: whether `git rev-parse <commit>^` finds a parent,
\* and the exit code and output of `git diff-tree`, which prints nothing for a
\* commit without a parent.
Commits ==
    {c \in [has_parent : BOOLEAN, code : {0, 1}, lines : SUBSET Paths] :
        /\ ~c.has_parent => c.lines = {}
        /\ c.code # 0 => c.lines = {}}

NoCommit == [has_parent |-> FALSE, code |-> 1, lines |-> {}]

NoneWritten == [parent |-> {}, commit |-> {}]

DeltaIdle ==
    /\ commit = NoCommit
    /\ dpc = "idle"
    /\ changed_files = {}
    /\ parent_dir = None
    /\ commit_dir = None
    /\ parent_data = None
    /\ commit_data = None
    /\ parent_metrics = ZeroMetrics
    /\ commit_metrics = ZeroMetrics
    /\ delta = None
    /\ php_runs = {}
    /\ written = NoneWritten

\* analyze_commit_delta is called; the scratch directories may be left over
\* from an earlier call
DeltaInit ==
    /\ commit \in Commits
    /\ dpc = "rev_parse"
    /\ changed_files = {}
    /\ parent_dir \in {None, Some({"old.php"})}
    /\ commit_dir = parent_dir
    /\ parent_data = None
    /\ commit_data = None
    /\ parent_metrics = ZeroMetrics
    /\ commit_metrics = ZeroMetrics
    /\ delta = None
    /\ php_runs = {}
    /\ written = NoneWritten

\* git rev-parse <commit>^
ResolveParent ==
    /\ dpc = "rev_parse"
    /\ IF commit.has_parent
       THEN dpc' = "changed_files" /\ UNCHANGED delta
       ELSE dpc' = "returned" /\ delta' = None
    /\ UNCHANGED <<commit, changed_files, parent_dir, commit_dir, parent_data, commit_data,
                   parent_metrics, commit_metrics, php_runs, written>>

\* no changed source file: None is returned instead of the all-zero dict
GetChangedFiles_returns_none ==
    /\ dpc = "changed_files"
    /\ \E script_exists \in BOOLEAN :
         /\ changed_files' = get_changed_files(commit.code, commit.lines)
         /\ IF changed_files' = {}
            THEN dpc' = "returned" /\ delta' = None
            ELSE IF ~script_exists
                 THEN dpc' = "returned" /\ delta' = Some(ZeroDelta)
                 ELSE dpc' = "parent" /\ UNCHANGED delta
    /\ UNCHANGED <<commit, parent_dir, commit_dir, parent_data, commit_data,
                   parent_metrics, commit_metrics, php_runs, written>>

\* changed_files = get_changed_files(...), and the two early returns
GetChangedFiles ==
    /\ dpc = "changed_files"
    /\ \E script_exists \in BOOLEAN :
         /\ changed_files' = get_changed_files(commit.code, commit.lines)
         /\ IF changed_files' = {} \/ ~script_exists
            THEN dpc' = "returned" /\ delta' = Some(ZeroDelta)
            ELSE dpc' = "parent" /\ UNCHANGED delta
    /\ UNCHANGED <<commit, parent_dir, commit_dir, parent_data, commit_data,
                   parent_metrics, commit_metrics, php_runs, written>>

\* Export and analyze parent
ExportAnalyzeParent(Outcomes) ==
    /\ dpc = "parent"
    /\ \E present \in SUBSET changed_files, data \in Outcomes :
         /\ parent_dir' = export_changed_files(changed_files, present, rmtree(parent_dir))
         /\ parent_data' = IF has_php(parent_dir') THEN data ELSE None
         /\ parent_metrics' = get_metrics(parent_dir', parent_data')
         /\ php_runs' = IF has_php(parent_dir') THEN php_runs \cup {"parent"} ELSE php_runs
         /\ written' = [written EXCEPT !.parent = changed_files \cap present]
    /\ dpc' = "commit"
    /\ UNCHANGED <<commit, changed_files, commit_dir, commit_data, commit_metrics, delta>>

\* Export and analyze commit
ExportAnalyzeCommit(Outcomes) ==
    /\ dpc = "commit"
    /\ \E present \in SUBSET changed_files, data \in Outcomes :
         /\ commit_dir' = export_changed_files(changed_files, present, rmtree(commit_dir))
         /\ commit_data' = IF has_php(commit_dir') THEN data ELSE None
         /\ commit_metrics' = get_metrics(commit_dir', commit_data')
         /\ php_runs' = IF has_php(commit_dir') THEN php_runs \cup {"commit"} ELSE php_runs
         /\ written' = [written EXCEPT !.commit = changed_files \cap present]
    /\ dpc' = "deltas"
    /\ UNCHANGED <<commit, changed_files, parent_dir, parent_data, parent_metrics, delta>>

\* Calculate deltas
ReturnDeltas ==
    /\ dpc = "deltas"
    /\ delta' = Some(deltas(parent_metrics, commit_metrics))
    /\ dpc' = "returned"
    /\ UNCHANGED <<commit, changed_files, parent_dir, commit_dir, parent_data,
                   commit_data, parent_metrics, commit_metrics, php_runs, written>>

(***************************************************************************)
(* get_recent_commits and analyze_recent_commits                           *)
(*                                                                         *)
(* An entry of git_log is one commit as `git log --shortstat` prints it:   *)
(* its COMMIT: line (hash, %cs date as <<year, month, day>>, subject) and  *)
(* its shortstat line, if git prints one (stat = <<>> if not).             *)
(***************************************************************************)
MonthAbbr ==
    <<"Jan", "Feb", "Mar", "Apr", "May", "Jun",
      "Jul", "Aug", "Sep", "Oct", "Nov", "Dec">>

\* datetime.strptime(d, "%Y-%m-%d").strftime("%b %d, %Y")
strftime_bdY(d) == <<MonthAbbr[d[2]], d[3], d[1]>>

\* a < b for two %cs dates
DateBefore(a, b) ==
    \/ a[1] < b[1]
    \/ a[1] = b[1] /\ a[2] < b[2]
    \/ a[1] = b[1] /\ a[2] = b[2] /\ a[3] < b[3]

\* parts[3][:80]
Truncate80(msg) == IF Len(msg) > 80 THEN SubSeq(msg, 1, 80) ELSE msg

\* the dict appended for a log entry that has a shortstat line
commit_dict(e) ==
    [hash      |-> e.hash,
     message   |-> Truncate80(e.subject),
     date      |-> strftime_bdY(e.date),
     sort_date |-> e.date,
     lines     |-> e.stat[1].insertions + e.stat[1].deletions,
     type      |-> classify_commit(Truncate80(e.subject))]

\* sorted(cs, key=sort_date, reverse=True): newest first, equal dates in their
\* order in cs
RECURSIVE sorted_newest_first(_)
sorted_newest_first(cs) ==
    IF cs = <<>> THEN <<>>
    ELSE LET n == CHOOSE n \in 1..Len(cs) :
                    /\ \A j \in 1..Len(cs) : ~DateBefore(cs[n].sort_date, cs[j].sort_date)
                    /\ \A j \in 1..(n - 1) : DateBefore(cs[j].sort_date, cs[n].sort_date)
             rest == [j \in 1..(Len(cs) - 1) |-> IF j < n THEN cs[j] ELSE cs[j + 1]]
         IN  <<cs[n]>> \o sorted_newest_first(rest)

\* del c['sort_date']
without_sort_date(c) ==
    [hash |-> c.hash, message |-> c.message, date |-> c.date,
     lines |-> c.lines, type |-> c.type]

\* get_recent_commits, given git's exit code and output
get_recent_commits(code, log) ==
    IF code # 0 THEN <<>>
    ELSE LET with_stat == SelectSeq(log, LAMBDA e : e.stat # None)
             dicts == [j \in 1..Len(with_stat) |-> commit_dict(with_stat[j])]
             sorted == sorted_newest_first(dicts)
         IN  [j \in 1..Len(sorted) |-> without_sort_date(sorted[j])]

\* has_metric_changes with locDelta among the keys
has_metric_changes_with_loc(d) ==
    d.locDelta # 0 \/ d.ccnDelta # 0 \/ d.miDelta # 0 \/ d.antipatternsDelta # 0

\* has_metric_changes
has_metric_changes(d) ==
    d.ccnDelta # 0 \/ d.miDelta # 0 \/ d.antipatternsDelta # 0

\* commit['hash'][:11]
Hash11(h) == SubSeq(h, 1, 11)

\* the dict appended to results
result_dict(c, d) ==
    [hash |-> Hash11(c.hash), date |-> c.date, type |-> c.type, message |-> c.message,
     locDelta |-> d.locDelta, ccnDelta |-> d.ccnDelta, miDelta |-> d.miDelta,
     antipatternsDelta |-> d.antipatternsDelta]

target_count == 2

RecentIdle ==
    /\ git_log = <<>>
    /\ repo = <<>>
    /\ rpc = "idle"
    /\ commits = <<>>
    /\ cidx = 1
    /\ results = <<>>
    /\ scanned = <<>>

\* commits = get_recent_commits(drupal_dir, days=365), and `return []`
GetRecentCommits ==
    /\ rpc = "get_recent"
    /\ \E code \in {0, 1} :
         /\ commits' = get_recent_commits(code, git_log)
         /\ rpc' = IF commits' = <<>> THEN "returned" ELSE "loop"
    /\ results' = <<>>
    /\ cidx' = 1
    /\ UNCHANGED <<git_log, repo, scanned>>
    /\ UNCHANGED deltaVars

\* the head of `for commit in commits`: the loop ends, or analyze_commit_delta
\* is called on the next commit
ScanCommit ==
    /\ rpc = "loop"
    /\ IF cidx > Len(commits) \/ Len(results) >= target_count
       THEN /\ rpc' = "returned"
            /\ parent_dir' = rmtree(parent_dir)
            /\ commit_dir' = rmtree(commit_dir)
            /\ UNCHANGED <<commit, dpc, changed_files, parent_data, commit_data,
                           parent_metrics, commit_metrics, delta, php_runs, written>>
       ELSE /\ rpc' = "called"
            /\ commit' = repo[commits[cidx].hash]
            /\ dpc' = "rev_parse"
            /\ changed_files' = {}
            /\ parent_data' = None
            /\ commit_data' = None
            /\ parent_metrics' = ZeroMetrics
            /\ commit_metrics' = ZeroMetrics
            /\ delta' = None
            /\ php_runs' = {}
            /\ written' = NoneWritten
            /\ UNCHANGED <<parent_dir, commit_dir>>
    /\ UNCHANGED <<git_log, repo, commits, cidx, results, scanned>>

\* analyze_commit_delta has returned: the commit is kept or not
KeepCommit ==
    /\ rpc = "called"
    /\ dpc = "returned"
    /\ results' = IF delta # None /\ has_metric_changes(delta[1])
                  THEN Append(results, result_dict(commits[cidx], delta[1]))
                  ELSE results
    /\ scanned' = Append(scanned, [hash |-> commits[cidx].hash, delta |-> delta])
    /\ cidx' = cidx + 1
    /\ rpc' = "loop"
    /\ dpc' = "idle"
    /\ UNCHANGED <<git_log, repo, commits>>
    /\ UNCHANGED <<commit, changed_files, parent_dir, commit_dir, parent_data,
                   commit_data, parent_metrics, commit_metrics, delta, php_runs, written>>

MaxCommits == 3

Hashes == <<"a1a1a1a1a1a1a", "b2b2b2b2b2b2b", "c3c3c3c3c3c3c", "d4d4d4d4d4d4d",
            "e5e5e5e5e5e5e">>

\* the commits the scan meets: a root commit, a merge (no shortstat line, no
\* path printed by diff-tree), a commit of documentation, a commit of code
CommitKinds ==
    {[stat |-> TRUE,  git |-> [has_parent |-> FALSE, code |-> 0, lines |-> {}]],
     [stat |-> FALSE, git |-> [has_parent |-> TRUE, code |-> 0, lines |-> {}]],
     [stat |-> TRUE,  git |-> [has_parent |-> TRUE, code |-> 0, lines |-> {"README.txt"}]],
     [stat |-> TRUE,  git |-> [has_parent |-> TRUE, code |-> 0, lines |-> {"a.php"}]]}

RecentDates == {<<2024, 5, 1>>, <<2024, 5, 2>>}

\* the logs of n commits
Logs(n, Kinds, Dates, Subjects_) ==
    {[j \in 1..n |->
        [hash    |-> Hashes[j],
         date    |-> f[j].date,
         subject |-> f[j].subject,
         stat    |-> IF f[j].kind.stat
                     THEN Some([insertions |-> 3, deletions |-> 1])
                     ELSE None,
         git     |-> f[j].kind.git]] :
     f \in [1..n -> [kind : Kinds, date : Dates, subject : Subjects_]]}

\* the log as git prints it, without what git says of each commit
LogOf(l) ==
    [j \in 1..Len(l) |->
        [hash |-> l[j].hash, date |-> l[j].date, subject |-> l[j].subject,
         stat |-> l[j].stat]]

RepoOf(l) ==
    [h \in {l[j].hash : j \in 1..Len(l)} |->
        l[CHOOSE j \in 1..Len(l) : l[j].hash = h].git]

\* what the narrow php runs of the scan can print
RecentPhp ==
    {Some([loc |-> 1000, density2 |-> 0, ccnSum |-> 0, miDebtSum |-> 0]),
     Some([loc |-> 2000, density2 |-> 2, ccnSum |-> 2, miDebtSum |-> 1])}

\* analyze_recent_commits at statement pc, on a log in Ls
RecentInit(Ls, pc) ==
    /\ \E l \in Ls : git_log = LogOf(l) /\ repo = RepoOf(l)
    /\ rpc = pc
    /\ commits = <<>>
    /\ cidx = 1
    /\ results = <<>>
    /\ scanned = <<>>

RecentLogs ==
    UNION {Logs(n, CommitKinds, RecentDates, {"Fix node access"}) : n \in 0..MaxCommits}

(***************************************************************************)
(* main: the snapshot schedule                                             *)
(*                                                                         *)
(* A datetime is its year, month and day; a target is midnight of its day  *)
(* and `today` is some time of its day, so target <= today compares the    *)
(* three fields in order.                                                  *)
(***************************************************************************)
DRUPAL_START_DATE == [year |-> 2011, month |-> 1, day |-> 1]

\* target <= today
DateLE(a, b) ==
    \/ a.year < b.year
    \/ a.year = b.year /\ a.month < b.month
    \/ a.year = b.year /\ a.month = b.month /\ a.day <= b.day

\* the target six months on: the year is not advanced past December
next_target_same_year(t) ==
    LET new_month == t.month + 6
    IN  IF new_month > 12
        THEN [t EXCEPT !.month = new_month - 12]
        ELSE [t EXCEPT !.month = new_month]

\* the target six months on (lines 620-624)
next_target(t) ==
    LET new_month == t.month + 6
    IN  IF new_month > 12
        THEN [t EXCEPT !.year = t.year + 1, !.month = new_month - 12]
        ELSE [t EXCEPT !.month = new_month]

\* strftime("%Y-%m"): the year and the month, the day dropped
strftime_Ym(d) == <<d.year, d.month>>

\* the clock some time after `today`: the same day, or the month after
later_nows(d) ==
    {d, IF d.month = 12
        THEN [year |-> d.year + 1, month |-> 1, day |-> 1]
        ELSE [year |-> d.year, month |-> d.month + 1, day |-> 1]}

\* one pass of `while target <= today`
BuildSnapshotDates ==
    /\ mpc = "dates"
    /\ IF DateLE(target, today)
       THEN /\ snapshot_dates' = Append(snapshot_dates, target)
            /\ target' = next_target(target)
            /\ UNCHANGED mpc
       ELSE /\ mpc' = "snapshots"
            /\ UNCHANGED <<snapshot_dates, target>>
    /\ UNCHANGED <<today, idx, year_month, result, snapshots, head_commit,
                   current_date, per_module_data, work_dir, outcome, outputVars>>

(***************************************************************************)
(* analyze_version and the snapshot loop                                   *)
(***************************************************************************)
\* what can happen to one analyze_version call: the export, core/ being a
\* directory, analyze_directory returning data
VersionOutcomes ==
    {o \in [exported : BOOLEAN, core : BOOLEAN, data : BOOLEAN] :
        /\ o.core => o.exported
        /\ o.data => o.core}

\* the core modules, with the production loc drupalisms.php reports for each
Modules == {[name |-> "node", loc |-> 3], [name |-> "user", loc |-> 5]}

\* per_module.sort(key=loc, reverse=True) of the modules whose analysis gave data
RECURSIVE sorted_by_loc_desc(_)
sorted_by_loc_desc(ms) ==
    IF ms = {} THEN <<>>
    ELSE LET m == CHOOSE m \in ms : \A n \in ms : n.loc <= m.loc
         IN  <<m>> \o sorted_by_loc_desc(ms \ {m})

\* what `modules` can be: <<>> if core/modules is no directory, else the set of
\* modules whose analyze_directory gave data
ModuleOutcomes == {None} \cup {Some(ms) : ms \in SUBSET Modules}

\* export_version: the work directory after it
export_version(hash, ok) == Some([commit |-> hash, complete |-> ok])

\* analyze_version without its `if not data: return None`
analyze_version_keeps_no_data(hash, label, o, collect_per_module, modules) ==
    IF ~o.exported THEN None
    ELSE IF ~o.core THEN None
    ELSE Some([snapshot  |-> [date |-> label, commit |-> SubSeq(hash, 1, 8)],
               perModule |-> IF collect_per_module /\ modules # None
                             THEN Some(sorted_by_loc_desc(modules[1]))
                             ELSE None])

\* analyze_version: None, or the snapshot dict and its perModule entry
analyze_version(hash, label, o, collect_per_module, modules) ==
    IF ~o.exported THEN None
    ELSE IF ~o.core THEN None
    ELSE IF ~o.data THEN None
    ELSE Some([snapshot  |-> [date |-> label, commit |-> SubSeq(hash, 1, 8)],
               perModule |-> IF collect_per_module /\ modules # None
                             THEN Some(sorted_by_loc_desc(modules[1]))
                             ELSE None])

\* the hash git rev-list gives for a target date, and the one of HEAD
RevListHash == "1a2b3c4d5e6f"

HeadHash == "9f8e7d6c5b4a"

\* what happened to a target: no commit for its date, or how analyze_version
\* went
OutcomeOf(found, o) ==
    IF found = None THEN "no_commit"
    ELSE IF ~o.exported THEN "export_failed"
    ELSE IF ~o.core THEN "no_core"
    ELSE IF ~o.data THEN "no_data"
    ELSE "ok"

\* one pass of `for i, target in enumerate(snapshot_dates, 1)`
AnalyzeSnapshot ==
    /\ mpc = "snapshots"
    /\ IF idx <= Len(snapshot_dates)
       THEN \E found \in {None, Some(RevListHash)}, o \in VersionOutcomes :
              IF found # None
              THEN /\ year_month' = Some(strftime_Ym(snapshot_dates[idx]))
                   /\ work_dir' = export_version(found[1], o.exported)
                   /\ result' = analyze_version(found[1], year_month'[1], o, FALSE, None)
                   /\ snapshots' = IF result' # None
                                   THEN Append(snapshots, result'[1].snapshot)
                                   ELSE snapshots
                   /\ idx' = idx + 1
                   /\ outcome' = OutcomeOf(found, o)
                   /\ UNCHANGED mpc
              ELSE /\ idx' = idx + 1
                   /\ outcome' = OutcomeOf(found, o)
                   /\ UNCHANGED <<mpc, year_month, work_dir, result, snapshots>>
       ELSE /\ mpc' = "head"
            /\ UNCHANGED <<idx, year_month, work_dir, result, snapshots, outcome>>
    /\ UNCHANGED <<today, target, snapshot_dates, head_commit, current_date,
                   per_module_data, outputVars>>

\* the HEAD snapshot is appended whatever the last snapshot is
AnalyzeHead_always_append ==
    /\ mpc = "head"
    /\ \E head \in {None, Some(HeadHash)}, now \in later_nows(today),
          o \in VersionOutcomes, modules \in ModuleOutcomes :
         /\ head_commit' = head
         /\ outcome' = OutcomeOf(head, o)
         /\ IF head # None
            THEN /\ current_date' = Some(strftime_Ym(now))
                 /\ year_month' = current_date'
                 /\ work_dir' = export_version(head[1], o.exported)
                 /\ result' = analyze_version(head[1], current_date'[1], o, TRUE, modules)
                 /\ IF result' # None
                    THEN /\ per_module_data' = IF result'[1].perModule # None
                                               THEN result'[1].perModule[1]
                                               ELSE <<>>
                         /\ snapshots' = Append(snapshots, result'[1].snapshot)
                    ELSE UNCHANGED <<per_module_data, snapshots>>
            ELSE UNCHANGED <<current_date, year_month, work_dir, result,
                             per_module_data, snapshots>>
    /\ mpc' = "cleanup"
    /\ UNCHANGED <<today, target, snapshot_dates, idx, outputVars>>

\* the HEAD snapshot is never appended
AnalyzeHead_never_append ==
    /\ mpc = "head"
    /\ \E head \in {None, Some(HeadHash)}, now \in later_nows(today),
          o \in VersionOutcomes, modules \in ModuleOutcomes :
         /\ head_commit' = head
         /\ outcome' = OutcomeOf(head, o)
         /\ IF head # None
            THEN /\ current_date' = Some(strftime_Ym(now))
                 /\ year_month' = current_date'
                 /\ work_dir' = export_version(head[1], o.exported)
                 /\ result' = analyze_version(head[1], current_date'[1], o, TRUE, modules)
                 /\ IF result' # None
                    THEN /\ per_module_data' = IF result'[1].perModule # None
                                               THEN result'[1].perModule[1]
                                               ELSE <<>>
                         /\ UNCHANGED snapshots
                    ELSE UNCHANGED <<per_module_data, snapshots>>
            ELSE UNCHANGED <<current_date, year_month, work_dir, result,
                             per_module_data, snapshots>>
    /\ mpc' = "cleanup"
    /\ UNCHANGED <<today, target, snapshot_dates, idx, outputVars>>

\* Always analyze current HEAD (lines 642-656)
AnalyzeHead ==
    /\ mpc = "head"
    /\ \E head \in {None, Some(HeadHash)}, now \in later_nows(today),
          o \in VersionOutcomes, modules \in ModuleOutcomes :
         /\ head_commit' = head
         /\ outcome' = OutcomeOf(head, o)
         /\ IF head # None
            THEN /\ current_date' = Some(strftime_Ym(now))
                 /\ year_month' = current_date'
                 /\ work_dir' = export_version(head[1], o.exported)
                 /\ result' = analyze_version(head[1], current_date'[1], o, TRUE, modules)
                 /\ IF result' # None
                    THEN /\ per_module_data' = IF result'[1].perModule # None
                                               THEN result'[1].perModule[1]
                                               ELSE <<>>
                         /\ snapshots' =
                                IF snapshots = <<>>
                                   \/ snapshots[Len(snapshots)].date # current_date'[1]
                                THEN Append(snapshots, result'[1].snapshot)
                                ELSE snapshots
                    ELSE UNCHANGED <<per_module_data, snapshots>>
            ELSE UNCHANGED <<current_date, year_month, work_dir, result,
                             per_module_data, snapshots>>
    /\ mpc' = "cleanup"
    /\ UNCHANGED <<today, target, snapshot_dates, idx, outputVars>>

\* Cleanup work directory
CleanupWorkDir ==
    /\ mpc = "cleanup"
    /\ work_dir' = rmtree(work_dir)
    /\ mpc' = "recent"
    /\ UNCHANGED <<today, target, snapshot_dates, idx, year_month, result, snapshots,
                   head_commit, current_date, per_module_data, outcome, outputVars>>

(***************************************************************************)
(* main: setup, the recent commits, the commit counts, data.json           *)
(***************************************************************************)
\* setup_drupal: fetch if the mirror exists, clone if not
setup_drupal(exists, fetch_code, clone_code) ==
    IF exists THEN fetch_code = 0 ELSE clone_code = 0

\* if not setup_drupal(drupal_dir): sys.exit(1)
SetupDrupal ==
    /\ mpc = "setup"
    /\ \E exists \in BOOLEAN, fetch_code \in {0, 1}, clone_code \in {0, 1} :
         IF setup_drupal(exists, fetch_code, clone_code)
         THEN mpc' = "dates" /\ UNCHANGED exit_code
         ELSE mpc' = "exited" /\ exit_code' = Some(1)
    /\ UNCHANGED <<today, target, snapshot_dates, idx, year_month, result, snapshots,
                   head_commit, current_date, per_module_data, work_dir, outcome,
                   history, commitsPerYear, commitsMonthly, data_file>>

\* commits = analyze_recent_commits(drupal_dir, output_dir): the call
CallAnalyzeRecentCommits ==
    /\ mpc = "recent"
    /\ rpc = "idle"
    /\ rpc' = "get_recent"
    /\ UNCHANGED <<git_log, repo, commits, cidx, results, scanned>>
    /\ UNCHANGED mainVars

\* the lines `git log --pretty=format:%ad --date=format:%Y` prints for a history
YearLines(h) == [j \in 1..Len(h) |-> h[j].year]

\* the lines `git log --pretty=format:%ad|%s --date=format:%Y-%m` prints
MonthLines(h) == [j \in 1..Len(h) |-> h[j].year \o "-" \o h[j].month \o "|" \o h[j].subject]

DigitChars == "0123456789"

\* the value of the decimal digits of s from the i-th on, after acc
RECURSIVE int_from(_, _, _)
int_from(s, i, acc) ==
    IF i > Len(s) THEN acc
    ELSE int_from(s, i + 1,
                  10 * acc + (CHOOSE n \in 0..9 : CharAt(DigitChars, n + 1) = CharAt(s, i)))

\* int(year)
int(s) == int_from(strip(s), 1, 0)

\* the characters of a "%Y-%m" key in the order of their code points
KeyChars == "-0123456789"

ord(c) == CHOOSE n \in 1..Len(KeyChars) : CharAt(KeyChars, n) = c

\* a < b for two strings of KeyChars, as Python compares them
str_less(a, b) ==
    \E i \in 1..(Len(b)) :
        /\ \A j \in 1..(i - 1) : j <= Len(a) /\ CharAt(a, j) = CharAt(b, j)
        /\ \/ i > Len(a)
           \/ ord(CharAt(a, i)) < ord(CharAt(b, i))

\* the years of the list of get_commits_per_year after result.sort
RECURSIVE sorted_years(_)
sorted_years(ys) ==
    IF ys = {} THEN <<>>
    ELSE LET y == CHOOSE y \in ys : \A z \in ys : y <= z
         IN  <<y>> \o sorted_years(ys \ {y})

\* get_commits_per_year with year_counts[year] = 1 in place of the increment
get_commits_per_year_no_increment(code, lines) ==
    IF code # 0 \/ lines = <<>> THEN <<>>
    ELSE LET counted == {j \in 1..Len(lines) : strip(lines[j]) # ""}
             years == sorted_years({int(lines[j]) : j \in counted})
         IN  [n \in 1..Len(years) |-> [year |-> years[n], commits |-> 1]]

\* get_commits_per_year, given git's exit code and the lines it prints
get_commits_per_year(code, lines) ==
    IF code # 0 \/ lines = <<>> THEN <<>>
    ELSE LET counted == {j \in 1..Len(lines) : strip(lines[j]) # ""}
             years == sorted_years({int(lines[j]) : j \in counted})
         IN  [n \in 1..Len(years) |->
                [year    |-> years[n],
                 commits |-> Cardinality({j \in counted : int(lines[j]) = years[n]})]]

\* the index of the first "|" of line, 0 if it has none
FirstBar(line) ==
    IF \E i \in 1..Len(line) : CharAt(line, i) = "|"
    THEN CHOOSE i \in 1..Len(line) :
            /\ CharAt(line, i) = "|"
            /\ \A j \in 1..(i - 1) : CharAt(line, j) # "|"
    ELSE 0

\* date, subject = line.split('|', 1); date = date.strip()
date_of(line) == strip(SubSeq(line, 1, FirstBar(line) - 1))

subject_of(line) == Tail_(line, FirstBar(line) + 1)

\* the months of the list of get_commits_per_month after result.sort
RECURSIVE sorted_months(_)
sorted_months(ms) ==
    IF ms = {} THEN <<>>
    ELSE LET m == CHOOSE m \in ms : \A z \in ms : ~str_less(z, m)
         IN  <<m>> \o sorted_months(ms \ {m})

\* get_commits_per_month, given git's exit code and the lines it prints
get_commits_per_month(code, lines) ==
    IF code # 0 \/ lines = <<>> THEN <<>>
    ELSE LET counted == {j \in 1..Len(lines) : FirstBar(lines[j]) # 0}
             months == sorted_months({date_of(lines[j]) : j \in counted})
             in_month(m) == {j \in counted : date_of(lines[j]) = m}
             of(m, types) ==
                Cardinality({j \in in_month(m) :
                               classify_commit(subject_of(lines[j])) \in types})
         IN  [n \in 1..Len(months) |->
                [date        |-> months[n],
                 total       |-> Cardinality(in_month(months[n])),
                 features    |-> of(months[n], {"Feature"}),
                 bugs        |-> of(months[n], {"Bug"}),
                 maintenance |-> of(months[n], {"Maintenance"}),
                 unknown     |-> of(months[n], Tags \ {"Bug", "Feature", "Maintenance"})]]

\* analyze_recent_commits has returned; commitsPerYear and commitsMonthly
CountCommits ==
    /\ mpc = "recent"
    /\ rpc = "returned"
    /\ \E year_code \in {0, 1}, month_code \in {0, 1} :
         /\ commitsPerYear' = get_commits_per_year(year_code, YearLines(history))
         /\ commitsMonthly' = get_commits_per_month(month_code, MonthLines(history))
    /\ mpc' = "write"
    /\ UNCHANGED <<today, target, snapshot_dates, idx, year_month, result, snapshots,
                   head_commit, current_date, per_module_data, work_dir, outcome,
                   history, data_file, exit_code>>

\* the final data structure
data(now) ==
    [generated      |-> now,
     commitsMonthly |-> commitsMonthly,
     snapshots      |-> snapshots,
     commits        |-> results,
     commitsPerYear |-> commitsPerYear,
     perModule      |-> per_module_data]

\* not json_str or json_str == "{}"
json_str_empty(d) == DOMAIN d = {}

\* Save results as JSON: the file is written, or open() fails, or write() does
WriteData ==
    /\ mpc = "write"
    /\ \E now \in later_nows(today), io \in {"ok", "open_failed", "write_failed"} :
         IF json_str_empty(data(now))
         THEN /\ mpc' = "exited"
              /\ exit_code' = Some(1)
              /\ UNCHANGED data_file
         ELSE IF io = "ok"
         THEN /\ mpc' = "done"
              /\ exit_code' = Some(0)
              /\ data_file' = Some(data(now))
         ELSE /\ mpc' = "exited"
              /\ exit_code' = Some(1)
              /\ data_file' = IF io = "open_failed" THEN data_file
                              ELSE Some([truncated |-> TRUE])
    /\ UNCHANGED <<today, target, snapshot_dates, idx, year_month, result, snapshots,
                   head_commit, current_date, per_module_data, work_dir, outcome,
                   history, commitsPerYear, commitsMonthly>>

\* the history of a run: three commits over two months of two years
RunHistory ==
    <<[year |-> "2024", month |-> "05", subject |-> "Fix node access"],
      [year |-> "2024", month |-> "05", subject |-> "Issue #1: Add views"],
      [year |-> "2023", month |-> "12", subject |-> "Update tests"]>>

\* the recent commits of a run: a root commit, then a commit of code
RunLogs ==
    {l \in Logs(2, CommitKinds, {<<2024, 5, 1>>}, {"Fix node access"}) :
        /\ ~l[1].git.has_parent
        /\ l[2].git.lines = {"a.php"}}

\* what the narrow php runs of a run print
RunPhp == {Some([loc |-> 2000, density2 |-> 2, ccnSum |-> 2, miDebtSum |-> 1])}

MainIdle ==
    /\ mpc = "idle"
    /\ today = DRUPAL_START_DATE
    /\ target = DRUPAL_START_DATE
    /\ snapshot_dates = <<>>
    /\ idx = 1
    /\ year_month = None
    /\ result = None
    /\ snapshots = <<>>
    /\ head_commit = None
    /\ current_date = None
    /\ per_module_data = <<>>
    /\ work_dir = None
    /\ outcome = "none"
    /\ history = <<>>
    /\ commitsPerYear = <<>>
    /\ commitsMonthly = <<>>
    /\ data_file = None
    /\ exit_code = None

\* main at statement pc, with the clock in Todays and the history in Histories
MainInit(Todays, Histories, pc) ==
    /\ mpc = pc
    /\ today \in Todays
    /\ target = [DRUPAL_START_DATE EXCEPT !.day = 1, !.month = 1]
    /\ snapshot_dates = <<>>
    /\ idx = 1
    /\ year_month = None
    /\ result = None
    /\ snapshots = <<>>
    /\ head_commit = None
    /\ current_date = None
    /\ per_module_data = <<>>
    /\ work_dir = None
    /\ outcome = "none"
    /\ history \in Histories
    /\ commitsPerYear = <<>>
    /\ commitsMonthly = <<>>
    /\ data_file = None
    /\ exit_code = None

\* the date `months` months after the start date's January
MonthsOn(months, day) ==
    [year  |-> DRUPAL_START_DATE.year + (months \div 12),
     month |-> (months % 12) + 1,
     day   |-> day]

MaxYears == 13

\* every day 1, 15 or 28 of a month of the first MaxYears + 1 years
AllTodays == {MonthsOn(m, d) : m \in 0..(12 * MaxYears + 11), d \in {1, 15, 28}}

MaxRunHalfYears == 2

\* the first and the last month of each half-year of a run
RunTodays ==
    {MonthsOn(m, d) : m \in {n \in 0..(6 * MaxRunHalfYears) : n % 6 \in {0, 5}},
                      d \in {1, 15}}

DatesSpecInit ==
    ClassifyIdle /\ DeltaIdle /\ MainInit(AllTodays, {<<>>}, "dates") /\ RecentIdle

DatesNext == BuildSnapshotDates /\ UNCHANGED <<classifyVars, deltaVars, recentVars>>

SpecDates == DatesSpecInit /\ [][DatesNext]_vars

SpecInit ==
    /\ ClassifyIdle
    /\ DeltaIdle
    /\ MainInit(RunTodays, {RunHistory}, "setup")
    /\ RecentInit(RunLogs, "idle")

Next ==
    \/ SetupDrupal /\ UNCHANGED <<classifyVars, deltaVars, recentVars>>
    \/ BuildSnapshotDates /\ UNCHANGED <<classifyVars, deltaVars, recentVars>>
    \/ AnalyzeSnapshot /\ UNCHANGED <<classifyVars, deltaVars, recentVars>>
    \/ AnalyzeHead /\ UNCHANGED <<classifyVars, deltaVars, recentVars>>
    \/ CleanupWorkDir /\ UNCHANGED <<classifyVars, deltaVars, recentVars>>
    \/ CallAnalyzeRecentCommits /\ UNCHANGED <<classifyVars, deltaVars>>
    \/ GetRecentCommits /\ UNCHANGED <<classifyVars, mainVars>>
    \/ ScanCommit /\ UNCHANGED <<classifyVars, mainVars>>
    \/ ResolveParent /\ UNCHANGED <<classifyVars, mainVars, recentVars>>
    \/ GetChangedFiles /\ UNCHANGED <<classifyVars, mainVars, recentVars>>
    \/ ExportAnalyzeParent(RunPhp) /\ UNCHANGED <<classifyVars, mainVars, recentVars>>
    \/ ExportAnalyzeCommit(RunPhp) /\ UNCHANGED <<classifyVars, mainVars, recentVars>>
    \/ ReturnDeltas /\ UNCHANGED <<classifyVars, mainVars, recentVars>>
    \/ KeepCommit /\ UNCHANGED <<classifyVars, mainVars>>
    \/ CountCommits /\ UNCHANGED <<classifyVars, deltaVars, recentVars>>
    \/ WriteData /\ UNCHANGED <<classifyVars, deltaVars, recentVars>>

Spec == SpecInit /\ [][Next]_vars

RecentSpecInit ==
    ClassifyIdle /\ DeltaIdle /\ MainIdle /\ RecentInit(RecentLogs, "get_recent")

RecentNext ==
    \/ GetRecentCommits /\ UNCHANGED <<classifyVars, mainVars>>
    \/ ScanCommit /\ UNCHANGED <<classifyVars, mainVars>>
    \/ ResolveParent /\ UNCHANGED <<classifyVars, mainVars, recentVars>>
    \/ GetChangedFiles /\ UNCHANGED <<classifyVars, mainVars, recentVars>>
    \/ ExportAnalyzeParent(RecentPhp) /\ UNCHANGED <<classifyVars, mainVars, recentVars>>
    \/ ExportAnalyzeCommit(RecentPhp) /\ UNCHANGED <<classifyVars, mainVars, recentVars>>
    \/ ReturnDeltas /\ UNCHANGED <<classifyVars, mainVars, recentVars>>
    \/ KeepCommit /\ UNCHANGED <<classifyVars, mainVars>>

SpecRecent == RecentSpecInit /\ [][RecentNext]_vars

(***************************************************************************)
(* main from line 615 to the return of analyze_recent_commits, started     *)
(* with scratch directories that an earlier, interrupted run has left      *)
(***************************************************************************)
\* what an interrupted run leaves in output/work
StaleWorkDir == Some([commit |-> "0000000000000", complete |-> TRUE])

\* what an interrupted run leaves in commit_work/parent and commit_work/commit
StaleCommitDir == Some({"old.php", "a.php"})

ScratchMainInit ==
    /\ mpc = "dates"
    /\ today = MonthsOn(6, 15)
    /\ target = [DRUPAL_START_DATE EXCEPT !.day = 1, !.month = 1]
    /\ snapshot_dates = <<>>
    /\ idx = 1
    /\ year_month = None
    /\ result = None
    /\ snapshots = <<>>
    /\ head_commit = None
    /\ current_date = None
    /\ per_module_data = <<>>
    /\ work_dir \in {None, StaleWorkDir}
    /\ outcome = "none"
    /\ history = <<>>
    /\ commitsPerYear = <<>>
    /\ commitsMonthly = <<>>
    /\ data_file = None
    /\ exit_code = None

ScratchDeltaInit ==
    /\ commit = NoCommit
    /\ dpc = "idle"
    /\ changed_files = {}
    /\ parent_dir \in {None, StaleCommitDir}
    /\ commit_dir = parent_dir
    /\ parent_data = None
    /\ commit_data = None
    /\ parent_metrics = ZeroMetrics
    /\ commit_metrics = ZeroMetrics
    /\ delta = None
    /\ php_runs = {}
    /\ written = NoneWritten

\* two commits of code, one after the other
ScratchLogs ==
    {l \in Logs(2, CommitKinds, {<<2024, 5, 1>>}, {"Fix node access"}) :
        \A j \in 1..2 : l[j].git.lines = {"a.php"}}

ScratchSpecInit ==
    ClassifyIdle /\ ScratchDeltaInit /\ ScratchMainInit /\ RecentInit(ScratchLogs, "idle")

ScratchNext ==
    \/ BuildSnapshotDates /\ UNCHANGED <<classifyVars, deltaVars, recentVars>>
    \/ AnalyzeSnapshot /\ UNCHANGED <<classifyVars, deltaVars, recentVars>>
    \/ AnalyzeHead /\ UNCHANGED <<classifyVars, deltaVars, recentVars>>
    \/ CleanupWorkDir /\ UNCHANGED <<classifyVars, deltaVars, recentVars>>
    \/ CallAnalyzeRecentCommits /\ UNCHANGED <<classifyVars, deltaVars>>
    \/ GetRecentCommits /\ UNCHANGED <<classifyVars, mainVars>>
    \/ ScanCommit /\ UNCHANGED <<classifyVars, mainVars>>
    \/ ResolveParent /\ UNCHANGED <<classifyVars, mainVars, recentVars>>
    \/ GetChangedFiles /\ UNCHANGED <<classifyVars, mainVars, recentVars>>
    \/ ExportAnalyzeParent(RunPhp) /\ UNCHANGED <<classifyVars, mainVars, recentVars>>
    \/ ExportAnalyzeCommit(RunPhp) /\ UNCHANGED <<classifyVars, mainVars, recentVars>>
    \/ ReturnDeltas /\ UNCHANGED <<classifyVars, mainVars, recentVars>>
    \/ KeepCommit /\ UNCHANGED <<classifyVars, mainVars>>

SpecScratch == ScratchSpecInit /\ [][ScratchNext]_vars

(***************************************************************************)
(* The two commit counts of main, on every history of a few commits        *)
(***************************************************************************)
MaxHistory == 3

\* a Bug with a "|" in its subject, a Feature, a Maintenance, an Unknown
CountSubjects == {"fix: a|b", "feat: views", "Node"}

CountMonths ==
    {[year |-> "2023", month |-> "12"],
     [year |-> "2024", month |-> "01"],
     [year |-> "2024", month |-> "12"]}

Histories ==
    UNION {[1..n -> {[year |-> m.year, month |-> m.month, subject |-> t] :
                       m \in CountMonths, t \in CountSubjects}] : n \in 0..MaxHistory}

CountsSpecInit ==
    /\ ClassifyIdle
    /\ DeltaIdle
    /\ MainInit({DRUPAL_START_DATE}, Histories, "recent")
    /\ RecentInit({<<>>}, "returned")

CountsNext == CountCommits /\ UNCHANGED <<classifyVars, deltaVars, recentVars>>

SpecCounts == CountsSpecInit /\ [][CountsNext]_vars

\* a subject of a core commit with a long list of contributors, and a short one
LongSubjects ==
    {"Issue #3000000 by alice, bob, carol, dan, erin, frank, grace, heidi, ivan, judy, mallory: Fixed node access",
     "Fix node access"}

\* a commit of code
CodeCommits == {k \in CommitKinds : k.stat /\ k.git.has_parent /\ "a.php" \in k.git.lines}

MaxLongCommits == 2

LongLogs ==
    UNION {Logs(n, CodeCommits, RecentDates, LongSubjects) : n \in 0..MaxLongCommits}

LongSpecInit ==
    ClassifyIdle /\ DeltaIdle /\ MainIdle /\ RecentInit(LongLogs, "get_recent")

LongNext ==
    \/ GetRecentCommits /\ UNCHANGED <<classifyVars, mainVars>>
    \/ ScanCommit /\ UNCHANGED <<classifyVars, mainVars>>
    \/ ResolveParent /\ UNCHANGED <<classifyVars, mainVars, recentVars>>
    \/ GetChangedFiles /\ UNCHANGED <<classifyVars, mainVars, recentVars>>
    \/ ExportAnalyzeParent(RecentPhp) /\ UNCHANGED <<classifyVars, mainVars, recentVars>>
    \/ ExportAnalyzeCommit(RecentPhp) /\ UNCHANGED <<classifyVars, mainVars, recentVars>>
    \/ ReturnDeltas /\ UNCHANGED <<classifyVars, mainVars, recentVars>>
    \/ KeepCommit /\ UNCHANGED <<classifyVars, mainVars>>

SpecLongSubjects == LongSpecInit /\ [][LongNext]_vars

DeltaSpecInit == ClassifyIdle /\ DeltaInit /\ MainIdle /\ RecentIdle

DeltaNext ==
    \/ ResolveParent /\ UNCHANGED <<classifyVars, mainVars, recentVars>>
    \/ GetChangedFiles /\ UNCHANGED <<classifyVars, mainVars, recentVars>>
    \/ ExportAnalyzeParent(PhpOutcomes) /\ UNCHANGED <<classifyVars, mainVars, recentVars>>
    \/ ExportAnalyzeCommit(PhpOutcomes) /\ UNCHANGED <<classifyVars, mainVars, recentVars>>
    \/ ReturnDeltas /\ UNCHANGED <<classifyVars, mainVars, recentVars>>

SpecDelta == DeltaSpecInit /\ [][DeltaNext]_vars

ClassifySpecInit == ClassifyInit /\ DeltaIdle /\ MainIdle /\ RecentIdle

ClassifyNext == Classify /\ UNCHANGED <<deltaVars, mainVars, recentVars>>

SpecClassify == ClassifySpecInit /\ [][ClassifyNext]_vars

(***************************************************************************)
(* Claims about classify_commit                                            *)
(***************************************************************************)

Rule1(s) ==
    \/ conventional_match(bug_types, s)
    \/ conventional_match(feature_types, s)
    \/ conventional_match(maintenance_types, s)

Rule2(s) == issue_match(s).matched

Rule3(s) == startswith(s, "merge")

\* C1: the tag returned for a subject is one of Bug, Feature, Maintenance,
\* Unknown, and it is the tag of the first rule that matches the trimmed,
\* lower-cased subject, in the order: conventional-commit prefix; issue
\* prefix (the tag of the description); leading "merge"; feature keyword;
\* bug keyword; maintenance keyword; otherwise Unknown.
C1_FirstMatchingRule ==
    cpc = "done" =>
        LET s == lower(strip(subject))
        IN  /\ commit_type \in Tags
            /\ conventional_match(bug_types, s) => commit_type = "Bug"
            /\ conventional_match(feature_types, s) => commit_type = "Feature"
            /\ conventional_match(maintenance_types, s) => commit_type = "Maintenance"
            /\ (~Rule1(s) /\ Rule2(s)) =>
                    commit_type = classify_commit(issue_match(s).group)
            /\ (~Rule1(s) /\ ~Rule2(s) /\ Rule3(s)) => commit_type = "Maintenance"
            /\ (~Rule1(s) /\ ~Rule2(s) /\ ~Rule3(s)) =>
                    commit_type =
                        IF any_keyword(feature_keywords, s) THEN "Feature"
                        ELSE IF any_keyword(bug_keywords, s) THEN "Bug"
                        ELSE IF any_keyword(maintenance_keywords, s) THEN "Maintenance"
                        ELSE "Unknown"

\* a subject with a feature keyword and a bug keyword, decided by rule 4
C1_Witness ==
    /\ cpc = "done"
    /\ commit_type = "Feature"
    /\ LET s == lower(strip(subject))
       IN  /\ ~Rule1(s) /\ ~Rule2(s) /\ ~Rule3(s)
           /\ any_keyword(feature_keywords, s)
           /\ any_keyword(bug_keywords, s)

\* The form  issue #<number><text without colon>: <description>  read off the
\* subject itself: "issue #", a number, text free of colons, a colon and one
\* blank.  FirstColon is the place of the first colon.
FirstColon(s) ==
    CHOOSE k \in 1..Len(s) : CharAt(s, k) = ":" /\ \A j \in 1..(k - 1) : CharAt(s, j) # ":"

IssueForm(s) ==
    /\ startswith(lower(s), "issue #")
    /\ LeadingDigits(Tail_(s, 8)) >= 1
    /\ \E k \in 1..Len(s) : CharAt(s, k) = ":"
    /\ CharAt(s, FirstColon(s) + 1) = " "

\* the text after the first colon and its blank
DescriptionOf(s) == Tail_(s, FirstColon(s) + 2)

\* C2 as stated: every subject of the issue form with a non-empty description
\* gets the tag of its description.
C2_AsStated ==
    (cpc = "done" /\ IssueForm(subject) /\ DescriptionOf(subject) # "") =>
        commit_type = classify_commit(DescriptionOf(subject))

\* C2: every subject of the issue form whose description holds a character
\* that is not whitespace gets the tag of its description, and the
\* description the classifier recurses into is shorter than the subject.
C2_IssueRecursion ==
    cpc = "done" =>
        /\ (IssueForm(subject) /\ strip(DescriptionOf(subject)) # "") =>
                commit_type = classify_commit(DescriptionOf(subject))
        /\ LET m == issue_match(lower(strip(subject)))
           IN  m.matched => Len(strip(m.group)) < Len(strip(subject))

\* an issue subject with a keyword before its colon, tagged by its description
C2_Witness ==
    /\ cpc = "done"
    /\ commit_type = "Unknown"
    /\ IssueForm(subject)
    /\ strip(DescriptionOf(subject)) # ""
    /\ any_keyword(maintenance_keywords, SubSeq(subject, 1, FirstColon(subject)))

(***************************************************************************)
(* Claims about analyze_commit_delta                                       *)
(***************************************************************************)
Negated(d) ==
    [locDelta          |-> 0 - d.locDelta,
     ccnDelta          |-> 0 - d.ccnDelta,
     miDelta           |-> 0 - d.miDelta,
     antipatternsDelta |-> 0 - d.antipatternsDelta]

\* C3: the returned dict holds child - parent for loc, ccnSum and
\* antipatterns and parent - child for miDebtSum, and the dict computed with
\* the two metric sets swapped is its negation, field by field.
C3_DeltaFields ==
    (dpc = "returned" /\ delta # None) =>
        /\ delta[1].locDelta = commit_metrics.loc - parent_metrics.loc
        /\ delta[1].ccnDelta = commit_metrics.ccnSum - parent_metrics.ccnSum
        /\ delta[1].antipatternsDelta =
                commit_metrics.antipatterns - parent_metrics.antipatterns
        /\ delta[1].miDelta = parent_metrics.miDebtSum - commit_metrics.miDebtSum
        /\ deltas(commit_metrics, parent_metrics) = Negated(delta[1])

\* both exports were analysed and all four fields moved, maintainability
\* getting better while the code grew
C3_Witness ==
    /\ dpc = "returned"
    /\ php_runs = {"parent", "commit"}
    /\ delta # None
    /\ delta[1].locDelta > 0
    /\ delta[1].ccnDelta < 0
    /\ delta[1].miDelta > 0
    /\ delta[1].antipatternsDelta > 0

\* the commit's changed paths, filtered to the source extensions
SourcePaths == get_changed_files(commit.code, commit.lines)

\* C4 as stated: every commit with no changed source path gets the all-zero
\* dict, and drupalisms.php is not run for it.
C4_AsStated ==
    (dpc = "returned" /\ SourcePaths = {}) =>
        (delta = Some(ZeroDelta) /\ php_runs = {})

\* C4: every commit that has a parent and no changed source path gets the
\* all-zero dict, and drupalisms.php is not run for it.
C4_NoSourceFiles ==
    (dpc = "returned" /\ commit.has_parent /\ SourcePaths = {}) =>
        (delta = Some(ZeroDelta) /\ php_runs = {})

\* a commit that changed only a file outside the allow-list
C4_Witness ==
    /\ dpc = "returned"
    /\ commit.has_parent
    /\ commit.lines = {"README.txt"}
    /\ SourcePaths = {}
    /\ delta = Some(ZeroDelta)
    /\ php_runs = {}

\* round(n / d) as Python rounds: to the nearest integer, halves to the even one
round_div(n, d) ==
    LET q == n \div d
        r == n % d
    IN  IF 2 * r < d THEN q
        ELSE IF 2 * r > d THEN q + 1
        ELSE IF q % 2 = 0 THEN q ELSE q + 1

\* C5: the anti-pattern count of an analysed export is
\* round(density * loc / 1000) of the density and loc php reported for it.
C5_RoundedCount ==
    /\ commit_data # None =>
            commit_metrics.antipatterns =
                round_div(commit_data[1].density2 * commit_data[1].loc, 2000)
    /\ parent_data # None =>
            parent_metrics.antipatterns =
                round_div(parent_data[1].density2 * parent_data[1].loc, 2000)

(***************************************************************************)
(* Claims about the snapshot schedule and the snapshot list                *)
(***************************************************************************)
\* the number of targets due by `today`: the k with start + 6k months <= today
RECURSIVE DueCount(_)
DueCount(k) ==
    IF DateLE(MonthsOn(6 * k, 1), today) THEN DueCount(k + 1) ELSE k

\* the first n targets: the first day of every sixth month from the start
ExpectedDates(n) == [k \in 1..n |-> MonthsOn(6 * (k - 1), 1)]

\* C6: while the list is built it is a prefix of the due targets, and when
\* the loop has ended it is exactly the first-of-month dates start,
\* start + 6 months, ... that are <= today, in ascending order.
C6_SnapshotDates ==
    /\ Len(snapshot_dates) <= DueCount(0)
    /\ snapshot_dates = ExpectedDates(Len(snapshot_dates))
    /\ mpc # "dates" => Len(snapshot_dates) = DueCount(0)

\* the spec's example: today = 2024-03-15 gives 2011-01, 2011-07, ..., 2024-01
C6_Witness ==
    /\ mpc = "snapshots"
    /\ today = [year |-> 2024, month |-> 3, day |-> 15]
    /\ Len(snapshot_dates) = 27
    /\ snapshot_dates[2] = [year |-> 2011, month |-> 7, day |-> 1]
    /\ snapshot_dates[3] = [year |-> 2012, month |-> 1, day |-> 1]
    /\ snapshot_dates[27] = [year |-> 2024, month |-> 1, day |-> 1]

\* "YYYY-MM" labels in their order
LabelLess(a, b) == a[1] < b[1] \/ (a[1] = b[1] /\ a[2] < b[2])

\* C7: the labels of the snapshot list are strictly ascending, hence pairwise
\* distinct, in every state of the run.
C7_SnapshotsAscending ==
    \A j, k \in 1..Len(snapshots) :
        j < k => LabelLess(snapshots[j].date, snapshots[k].date)

\* a target failed, two succeeded, and the HEAD snapshot was merged after them
C7_Witness ==
    /\ mpc = "cleanup"
    /\ Len(snapshot_dates) = 3
    /\ Len(snapshots) = 3
    /\ snapshots[3].commit = SubSeq(HeadHash, 1, 8)

HeadAnalysed ==
    /\ current_date # None
    /\ year_month = current_date
    /\ work_dir # None
    /\ work_dir[1].commit = HeadHash

\* the snapshots labelled with the current month
CurrentMonthSnapshots ==
    {k \in 1..Len(snapshots) : snapshots[k].date = current_date[1]}

HeadSnapshotMerged ==
    \E k \in 1..Len(snapshots) : snapshots[k].commit = SubSeq(HeadHash, 1, 8)

DatedCurrentMonthSnapshot ==
    \E k \in 1..Len(snapshots) :
        /\ snapshots[k].date = current_date[1]
        /\ snapshots[k].commit = SubSeq(RevListHash, 1, 8)

DateOf(h) == git_log[CHOOSE j \in 1..Len(git_log) : git_log[j].hash = h].date

\* a call of analyze_commit_delta whose result makes the commit one to keep
Qualifies(e) ==
    /\ e.delta # None
    /\ \/ e.delta[1].ccnDelta # 0
       \/ e.delta[1].miDelta # 0
       \/ e.delta[1].antipatternsDelta # 0

\* C9: analyze_recent_commits scans the candidates newest-first, one call of
\* analyze_commit_delta per candidate in that order; what it returns is, in
\* scan order, exactly the scanned commits whose delta exists and is non-zero
\* in ccnDelta, miDelta or antipatternsDelta; it never holds more than
\* target_count commits; the scan stops before the end of the candidates only
\* at the commit that brought the count to target_count, and no commit is
\* analysed once the count is target_count.
C9_RecentCommits ==
    /\ Len(results) <= target_count
    /\ rpc = "called" => Len(results) < target_count
    /\ rpc = "returned" =>
         LET kept == SelectSeq(scanned, Qualifies)
         IN  /\ Len(scanned) <= Len(commits)
             /\ \A j \in 1..Len(scanned) : scanned[j].hash = commits[j].hash
             /\ \A a, b \in 1..Len(commits) :
                  a < b => ~DateBefore(DateOf(commits[a].hash), DateOf(commits[b].hash))
             /\ Len(results) = Len(kept)
             /\ \A j \in 1..Len(kept) :
                  results[j] = result_dict(commits[CHOOSE c \in 1..Len(commits) :
                                                     commits[c].hash = kept[j].hash],
                                           kept[j].delta[1])
             /\ Len(scanned) < Len(commits) =>
                  /\ Len(results) = target_count
                  /\ Qualifies(scanned[Len(scanned)])

\* the scan stopped at target_count with a candidate left, after a sort that
\* moved a newer commit to the front
C9_Witness ==
    /\ rpc = "returned"
    /\ Len(results) = target_count
    /\ Len(scanned) < Len(commits)
    /\ commits[1].hash # git_log[1].hash

\* the first eight characters of a hash
Hash8(h) == SubSeq(h, 1, 8)

\* one pass of the snapshot loop: the run goes on to the next target, and the
\* target adds its snapshot if and only if a commit was found, the export
\* succeeded, core/ exists and the analysis returned data
TargetStep ==
    (mpc = "snapshots" /\ idx <= Len(snapshot_dates)) =>
        /\ mpc' = "snapshots"
        /\ idx' = idx + 1
        /\ exit_code' = None
        /\ snapshots' = IF outcome' = "ok"
                        THEN Append(snapshots,
                                    [date   |-> strftime_Ym(snapshot_dates[idx]),
                                     commit |-> Hash8(RevListHash)])
                        ELSE snapshots

\* the HEAD step: the run goes on, and a snapshot is added only for a HEAD
\* whose export succeeded, whose core/ exists and whose analysis returned data
HeadStep ==
    mpc = "head" =>
        /\ idx = Len(snapshot_dates) + 1
        /\ mpc' = "cleanup"
        /\ exit_code' = None
        /\ outcome' # "ok" => snapshots' = snapshots
        /\ snapshots' # snapshots =>
             snapshots' = Append(snapshots, [date   |-> current_date'[1],
                                             commit |-> Hash8(HeadHash)])

\* one commit of the scan: the scan goes on to the next commit, and a commit
\* without a parent, or without a delta, adds nothing to the results
CommitStep ==
    (rpc = "called" /\ rpc' # "called") =>
        /\ rpc' = "loop"
        /\ cidx' = cidx + 1
        /\ exit_code' = None
        /\ (~repo[commits[cidx].hash].has_parent \/ delta = None) => results' = results
        /\ results' # results =>
             results' = Append(results, result_dict(commits[cidx], delta[1]))

\* the scan ends only after its last commit or at target_count
ScanEnd ==
    (rpc = "loop" /\ rpc' = "returned") =>
        cidx > Len(commits) \/ Len(results) >= target_count

\* the run ends with status 1 only at the mirror step or at the write
ExitStep ==
    (exit_code = None /\ exit_code' = Some(1)) => mpc \in {"setup", "write"}

\* the data set written holds the snapshots and the commits of the run
Written ==
    mpc = "done" =>
        /\ exit_code = Some(0)
        /\ data_file # None
        /\ data_file[1].snapshots = snapshots
        /\ data_file[1].commits = results
        /\ data_file[1].perModule = per_module_data
        /\ rpc = "returned"

\* a step of the run can be taken; GetRecentCommits and CountCommits have no
\* condition but the statement the run is at
Proceeds ==
    \/ ENABLED SetupDrupal
    \/ ENABLED BuildSnapshotDates
    \/ ENABLED AnalyzeSnapshot
    \/ ENABLED AnalyzeHead
    \/ ENABLED CleanupWorkDir
    \/ ENABLED CallAnalyzeRecentCommits
    \/ rpc = "get_recent"
    \/ ENABLED ScanCommit
    \/ ENABLED ResolveParent
    \/ ENABLED GetChangedFiles
    \/ ENABLED ExportAnalyzeParent(RunPhp)
    \/ ENABLED ExportAnalyzeCommit(RunPhp)
    \/ ENABLED ReturnDeltas
    \/ ENABLED KeepCommit
    \/ mpc = "recent" /\ rpc = "returned"
    \/ ENABLED WriteData

\* C10: once setup_drupal has succeeded, no failure of an item ends the run:
\* a target without a commit, a failed export, a missing core/, an analysis
\* without data and a commit without a parent add no snapshot and no result,
\* the loop goes on to the next target or commit, the run stops with status 1
\* only at the write of data.json, every state before the write has a next
\* step, and a snapshot is added only for a target (or HEAD) whose export
\* succeeded, whose core/ exists and whose analysis returned data.
C10_ItemFailures ==
    /\ [](mpc \notin {"done", "exited"} => Proceeds)
    /\ [][/\ TargetStep
          /\ HeadStep
          /\ CommitStep
          /\ ScanEnd
          /\ ExitStep
          /\ Written']_vars

\* data.json written by a run whose first target failed and whose second gave
\* a snapshot, whose HEAD analysis failed, and whose scan met a root commit
\* before a commit it kept
C10_Witness ==
    /\ mpc = "done"
    /\ data_file # None
    /\ Len(snapshot_dates) >= 2
    /\ Len(snapshots) >= 1
    /\ snapshots[1].date = strftime_Ym(snapshot_dates[2])
    /\ head_commit # None
    /\ outcome \in {"export_failed", "no_core", "no_data"}
    /\ Len(scanned) = 2
    /\ scanned[1].delta = None
    /\ Len(data_file[1].commits) = 1

\* a final result without a snapshot, a commit, a count or a module
TrivialResult ==
    /\ snapshots = <<>>
    /\ results = <<>>
    /\ commitsPerYear = <<>>
    /\ commitsMonthly = <<>>
    /\ per_module_data = <<>>

\* C11: a run that ends with an empty or trivial final result ends with a
\* non-zero status and data.json is not written.
C11_EmptyResultFatal ==
    (mpc \in {"done", "exited"} /\ TrivialResult) =>
        /\ exit_code # None
        /\ exit_code # Some(0)
        /\ data_file = None

\* the analyzer runs on output/work in a pass of the snapshot loop: the
\* directory holds the complete export of the commit of this target
FullTreeTarget ==
    (mpc = "snapshots" /\ idx' = idx + 1 /\ outcome' \in {"no_data", "ok"}) =>
        work_dir' = Some([commit |-> RevListHash, complete |-> TRUE])

\* the analyzer runs on output/work in the HEAD step: the directory holds the
\* complete export of HEAD
FullTreeHead ==
    (mpc = "head" /\ head_commit' # None /\ outcome' \in {"no_data", "ok"}) =>
        work_dir' = Some([commit |-> HeadHash, complete |-> TRUE])

\* the analyzer runs on commit_work/parent or commit_work/commit: the
\* directory holds the paths that this call exported there, and no other
NarrowRun ==
    /\ "parent" \in php_runs' \ php_runs => parent_dir' = Some(written'.parent)
    /\ "commit" \in php_runs' \ php_runs => commit_dir' = Some(written'.commit)

RECURSIVE SumTo(_, _)
SumTo(f, n) == IF n = 0 THEN 0 ELSE f[n] + SumTo(f, n - 1)

\* the year of a "%Y-%m" key
YearOfKey(key) == int(SubSeq(key, 1, 4))

\* the sum of the totals of the months of year y
MonthsTotal(y) ==
    LET totals == [n \in 1..Len(commitsMonthly) |->
                     IF YearOfKey(commitsMonthly[n].date) = y
                     THEN commitsMonthly[n].total
                     ELSE 0]
    IN  SumTo(totals, Len(totals))

\* C13: for a commit log that git printed, the per-year counts sum to the
\* number of commits of the log; every month entry has
\* total = features + bugs + maintenance + unknown; and the totals of the
\* months of a year sum to the count of that year.
C13_CountsAgree ==
    mpc = "write" =>
        /\ commitsPerYear # <<>> =>
             SumTo([n \in 1..Len(commitsPerYear) |-> commitsPerYear[n].commits],
                   Len(commitsPerYear)) = Len(history)
        /\ \A n \in 1..Len(commitsMonthly) :
             LET e == commitsMonthly[n]
             IN  e.total = e.features + e.bugs + e.maintenance + e.unknown
        /\ (commitsPerYear # <<>> /\ commitsMonthly # <<>>) =>
             /\ \A n \in 1..Len(commitsPerYear) :
                  MonthsTotal(commitsPerYear[n].year) = commitsPerYear[n].commits
             /\ \A n \in 1..Len(commitsMonthly) :
                  \E y \in 1..Len(commitsPerYear) :
                     commitsPerYear[y].year = YearOfKey(commitsMonthly[n].date)

\* three commits over two years, two of them of different types in one month
C13_Witness ==
    /\ mpc = "write"
    /\ Len(history) = 3
    /\ Len(commitsPerYear) = 2
    /\ Len(commitsMonthly) = 2
    /\ \E n \in 1..2 :
         /\ commitsMonthly[n].total = 2
         /\ commitsMonthly[n].bugs = 1
         /\ commitsMonthly[n].unknown = 1

\* the subject line git printed for the commit whose abbreviated hash is h
SubjectOfHash(h) ==
    git_log[CHOOSE j \in 1..Len(git_log) : Hash11(git_log[j].hash) = h].subject

\* C14: every commit kept in the results carries the tag classify_commit
\* gives for the subject line of that commit, the tag under which
\* get_commits_per_month counts it, whatever the length of the subject.
C14_TagOfSubject ==
    \A n \in 1..Len(results) :
        results[n].type = classify_commit(SubjectOfHash(results[n].hash))

====
